---- MODULE Spec2Model ----
(***************************************************************************)
(* Building-permission dashboard (src/buildingwiseper.py): the script that *)
(* loads one CSV, computes scalar totals, grouped sums and a correlation   *)
(* matrix, and renders them, followed by the district/metric explorer.     *)
(*                                                                         *)
(* A dataframe is a sequence of rows; a row maps each column name to a     *)
(* cell.  A key cell is a name or NaN (read_csv reads an empty cell as     *)
(* NaN); a numeric cell is a natural number or Str, a text that is not a   *)
(* number (read_csv then keeps the whole column as text).  A Series is a   *)
(* sequence of [key, value] records in index order.                        *)
(***************************************************************************)
EXTENDS Integers, Sequences, FiniteSets, TLC

VARIABLES file, tieRank, pandas2, cache, session, pc, raised, screen,
          data, totals, district_apps, mandal_apps, mandal_sla, corr_matrix,
          selected_district, metric_choice, filtered_data, mandal_metric

vars == <<file, tieRank, pandas2, cache, session, pc, raised, screen,
          data, totals, district_apps, mandal_apps, mandal_sla, corr_matrix,
          selected_district, metric_choice, filtered_data, mandal_metric>>

-----------------------------------------------------------------------------
(* Bounds of the model *)

MaxRows == 3

-----------------------------------------------------------------------------
(* Columns and cells *)

district_Name == "district_Name"
mandal_Name == "mandal_Name"
total_No_of_Application_Received == "total_No_of_Application_Received"
no_of_Application_Approve_with_in_BSLA == "no_of_Application_Approve_with_in_BSLA"
no_of_Application_Approve_Beyond_BSLA == "no_of_Application_Approve_Beyond_BSLA"
no_of_Application_Reject_With_in_BSLA == "no_of_Application_Reject_With_in_BSLA"
no_of_Application_Reject_Beyond_BSLA == "no_of_Application_Reject_Beyond_BSLA"

Columns ==
  { district_Name, mandal_Name, total_No_of_Application_Received,
    no_of_Application_Approve_with_in_BSLA, no_of_Application_Approve_Beyond_BSLA,
    no_of_Application_Reject_With_in_BSLA, no_of_Application_Reject_Beyond_BSLA }

\* a missing key cell
NaN == "NaN"

\* a numeric cell holding text that is no number
Str == -1

\* the selector's entry for "no filter"
All == "All"

\* the names occurring in the enumerated files, in the order sorting puts them
KeyOrder == <<"All", "B", "C", "X", "Y">>

KeyIndex(k) == CHOOSE i \in 1..Len(KeyOrder) : KeyOrder[i] = k

-----------------------------------------------------------------------------
(* pandas operations used by the script *)

Column(df, col) == [i \in 1..Len(df) |-> df[i][col]]

RECURSIVE SeqSum(_)
SeqSum(s) == IF s = <<>> THEN 0 ELSE Head(s) + SeqSum(Tail(s))

\* a column read as text: some cell is no number
IsObject(s) == \E i \in 1..Len(s) : s[i] = Str

\* Series.sum(): the arithmetic sum; on a text column the concatenation of
\* the texts, which is again a text that is no number
Sum(s) == IF IsObject(s) THEN Str ELSE SeqSum(s)

\* Series.nunique(): NaN is not counted
NUnique(s) == Cardinality({s[i] : i \in 1..Len(s)} \ {NaN})

\* Series.unique(): the distinct values, NaN included, in order of first occurrence
RECURSIVE Unique(_)
Unique(s) ==
  IF s = <<>> THEN <<>>
  ELSE LET front == Unique(SubSeq(s, 1, Len(s) - 1))
           last == s[Len(s)]
       IN IF \E i \in 1..Len(front) : front[i] = last THEN front
          ELSE Append(front, last)

\* comparison of a key column with a value: NaN equals nothing
Eq(a, b) == a # NaN /\ b # NaN /\ a = b

Where(df, col, v) == SelectSeq(df, LAMBDA r : Eq(r[col], v))

\* the group keys of groupby(by): NaN keys dropped, keys sorted
SortKeys(S) ==
  [p \in 1..Cardinality(S) |->
     CHOOSE k \in S : Cardinality({j \in S : KeyIndex(j) < KeyIndex(k)}) = p - 1]

\* (groupby(sort=False): the keys in order of first occurrence)
GroupKeysMutant(df, by) == SelectSeq(Unique(Column(df, by)), LAMBDA k : k # NaN)

GroupKeys(df, by) == SortKeys({df[i][by] : i \in 1..Len(df)} \ {NaN})

\* df.groupby(by)[col].sum()
GroupBySum(df, by, col) ==
  LET keys == GroupKeys(df, by)
  IN [p \in 1..Len(keys) |->
        [key |-> keys[p], value |-> Sum(Column(Where(df, by, keys[p]), col))]]

\* df.groupby(by)[[c1, c2]].sum()
GroupBySum2(df, by, c1, c2) ==
  LET keys == GroupKeys(df, by)
  IN [p \in 1..Len(keys) |->
        [key |-> keys[p],
         value |-> << Sum(Column(Where(df, by, keys[p]), c1)),
                      Sum(Column(Where(df, by, keys[p]), c2)) >>]]

Reverse(s) == [i \in 1..Len(s) |-> s[Len(s) + 1 - i]]

\* argsort(kind='quicksort'): ascending by value; the order of equal values is
\* the build's (tieRank ranks the positions of the array being sorted)
ArgSort(s) ==
  LET Before(i, j) == \/ s[i].value < s[j].value
                      \/ s[i].value = s[j].value /\ tieRank[i] < tieRank[j]
      Pos(i) == 1 + Cardinality({j \in 1..Len(s) : Before(j, i)})
  IN [p \in 1..Len(s) |-> s[CHOOSE i \in 1..Len(s) : Pos(i) = p]]

\* Series.sort_values(ascending): descending sorts the reversed array
\* ascending and reverses the result
\* (the two directions exchanged)
SortValuesMutant(s, ascending) == IF ascending THEN Reverse(ArgSort(s)) ELSE ArgSort(s)

SortValues(s, ascending) ==
  IF ascending THEN ArgSort(s) ELSE Reverse(ArgSort(Reverse(s)))

-----------------------------------------------------------------------------
(* The script's computations (src/buildingwiseper.py, lines 49-141) *)

\* lines 49-55: the scalars of the overview, in the order they are computed
TotalsPlan ==
  << [name |-> "total_districts", col |-> district_Name, agg |-> "nunique"],
     [name |-> "total_mandals", col |-> mandal_Name, agg |-> "nunique"],
     [name |-> "total_applications", col |-> total_No_of_Application_Received, agg |-> "sum"],
     [name |-> "within_sla", col |-> no_of_Application_Approve_with_in_BSLA, agg |-> "sum"],
     [name |-> "beyond_sla", col |-> no_of_Application_Approve_Beyond_BSLA, agg |-> "sum"],
     [name |-> "rejected_within_sla", col |-> no_of_Application_Reject_With_in_BSLA, agg |-> "sum"],
     [name |-> "rejected_beyond_sla", col |-> no_of_Application_Reject_Beyond_BSLA, agg |-> "sum"] >>

Aggregate(df, col, agg) ==
  IF agg = "nunique" THEN NUnique(Column(df, col)) ELSE Sum(Column(df, col))

\* the first n scalars of the plan, as [name, value] assignments
Totals(df, n) ==
  [i \in 1..n |-> [name |-> TotalsPlan[i].name,
                   value |-> Aggregate(df, TotalsPlan[i].col, TotalsPlan[i].agg)]]

\* the value assigned to a scalar, once it is assigned
Total(ts, name) == (ts[CHOOSE i \in 1..Len(ts) : ts[i].name = name]).value

\* line 69
DistrictApps(df) ==
  SortValues(GroupBySum(df, district_Name, total_No_of_Application_Received), TRUE)

\* line 92
MandalApps(df) ==
  SortValues(GroupBySum(df, mandal_Name, total_No_of_Application_Received), FALSE)

\* line 100
MandalSla(df) ==
  GroupBySum2(df, mandal_Name, no_of_Application_Approve_with_in_BSLA,
              no_of_Application_Approve_Beyond_BSLA)

\* line 123: the entries of the district selector
DistrictOptions(df) == <<All>> \o Unique(Column(df, district_Name))

\* lines 125-128
FilteredData(df, selected) ==
  IF selected # All THEN Where(df, district_Name, selected) ELSE df

\* lines 130-131
MetricChoices == <<"Total Applications", "Within SLA", "Beyond SLA">>

\* lines 133-137
metric_map ==
  [choice \in {"Total Applications", "Within SLA", "Beyond SLA"} |->
     CASE choice = "Total Applications" -> total_No_of_Application_Received
       [] choice = "Within SLA" -> no_of_Application_Approve_with_in_BSLA
       [] choice = "Beyond SLA" -> no_of_Application_Approve_Beyond_BSLA]

\* (the two approval columns exchanged)
SelectedMetricMutant(choice) ==
  CASE choice = "Total Applications" -> total_No_of_Application_Received
    [] choice = "Within SLA" -> no_of_Application_Approve_Beyond_BSLA
    [] choice = "Beyond SLA" -> no_of_Application_Approve_with_in_BSLA

\* line 139
SelectedMetric(choice) == metric_map[choice]

\* line 141: the frame handed to the explorer's bar chart
MandalMetric(fd, choice) == GroupBySum(fd, mandal_Name, SelectedMetric(choice))

\* line 109
numeric_cols ==
  << total_No_of_Application_Received, no_of_Application_Approve_with_in_BSLA,
     no_of_Application_Approve_Beyond_BSLA >>

\* Pearson's r of two numeric columns, as the integers that decide it:
\* r = cov / sqrt(varx * vary), all three scaled by n*n; NaN when a variance
\* is zero (fewer than two rows included)
Pearson(df, cx, cy) ==
  LET n == Len(df)
      x == Column(df, cx)
      y == Column(df, cy)
      Dot(a, b) == SeqSum([i \in 1..n |-> a[i] * b[i]])
      vx == n * Dot(x, x) - SeqSum(x) * SeqSum(x)
      vy == n * Dot(y, y) - SeqSum(y) * SeqSum(y)
      cxy == n * Dot(x, y) - SeqSum(x) * SeqSum(y)
  IN IF n = 0 \/ vx = 0 \/ vy = 0
     THEN [nan |-> TRUE, cov |-> 0, varx |-> 0, vary |-> 0]
     ELSE [nan |-> FALSE, cov |-> cxy, varx |-> vx, vary |-> vy]

\* the dtype read_csv gives a numeric column: object when a cell is text, and
\* when there is no row at all
ObjectDtype(df, col) == Len(df) = 0 \/ IsObject(Column(df, col))

\* line 110, DataFrame.corr(): pandas 2 converts every column to float and
\* raises on text; pandas 1 silently leaves the object columns out
CorrRaises(df) ==
  pandas2 /\ \E i \in 1..Len(numeric_cols) : IsObject(Column(df, numeric_cols[i]))

CorrColumns(df) ==
  IF pandas2 THEN numeric_cols
  ELSE SelectSeq(numeric_cols, LAMBDA c : ~ObjectDtype(df, c))

Corr(df) ==
  LET cols == CorrColumns(df)
  IN [columns |-> cols,
      r |-> [i \in 1..Len(cols) |-> [j \in 1..Len(cols) |->
               Pearson(df, cols[i], cols[j])]]]

-----------------------------------------------------------------------------
(* What the script puts on the page *)

StepOrder ==
  << "load", "metrics", "district_chart", "sla_pie", "mandal_chart",
     "mandal_sla_chart", "correlation", "explorer" >>

StepIndex(step) == CHOOSE i \in 1..Len(StepOrder) : StepOrder[i] = step

\* an element of the page: the step that rendered it, the streamlit call,
\* its label or the local it shows, and the value handed over
Element(step, kind, name, value) ==
  [step |-> step, kind |-> kind, name |-> name, value |-> value]

\* lines 59-65: the st.metric calls in the order they run; int() is applied
\* to the sums but not to the two counts
MetricCalls ==
  << [label |-> "Total Districts", of |-> "total_districts", int |-> FALSE],
     [label |-> "Total Mandals", of |-> "total_mandals", int |-> FALSE],
     [label |-> "Total Application Rejected with in SLA", of |-> "rejected_within_sla", int |-> TRUE],
     [label |-> "Total Applications", of |-> "total_applications", int |-> TRUE],
     [label |-> "Applications Within SLA", of |-> "within_sla", int |-> TRUE],
     [label |-> "Total Applications Rejected Beyond SAL", of |-> "rejected_beyond_sla", int |-> TRUE] >>

\* (a missing column read as absent values instead of raising)
KeyErrorAtMutant(columns) == 0

\* the first scalar of lines 49-55 whose column the frame lacks (KeyError),
\* or 0
KeyErrorAt(columns) ==
  IF \A i \in 1..Len(TotalsPlan) : TotalsPlan[i].col \in columns THEN 0
  ELSE CHOOSE i \in 1..Len(TotalsPlan) :
         /\ TotalsPlan[i].col \notin columns
         /\ \A j \in 1..(i - 1) : TotalsPlan[j].col \in columns

\* the first st.metric call whose int() raises (the sum of a text column is a
\* text that is no number), or 0
ValueErrorAt(ts) ==
  LET Bad(i) == MetricCalls[i].int /\ Total(ts, MetricCalls[i].of) = Str
  IN IF \A i \in 1..Len(MetricCalls) : ~Bad(i) THEN 0
     ELSE CHOOSE i \in 1..Len(MetricCalls) : Bad(i) /\ \A j \in 1..(i - 1) : ~Bad(j)

\* the metrics rendered by the first n st.metric calls
MetricElements(ts, n) ==
  [i \in 1..n |-> Element("metrics", "metric", MetricCalls[i].label,
                          Total(ts, MetricCalls[i].of))]

\* (the hint left out)
ExceptElementsMutant(exception) ==
  << Element("except", "error", "An error occurred while loading or processing the data: ", exception) >>

\* lines 147-148: the message ends with the text of the exception
ExceptElements(exception) ==
  << Element("except", "error", "An error occurred while loading or processing the data: ", exception),
     Element("except", "info", "Please make sure the dataset file is in the correct location and contains the expected columns.", 0) >>

-----------------------------------------------------------------------------
(* The files enumerated *)

Districts == {"All", "B"}
Mandals == {"X", "Y"}

Row(d, m, t, w, b, rw, rb) ==
  [district_Name |-> d, mandal_Name |-> m,
   total_No_of_Application_Received |-> t,
   no_of_Application_Approve_with_in_BSLA |-> w,
   no_of_Application_Approve_Beyond_BSLA |-> b,
   no_of_Application_Reject_With_in_BSLA |-> rw,
   no_of_Application_Reject_Beyond_BSLA |-> rb]

\* <<received, approved within, approved beyond>> of a row
Counts == {<<1, 1, 0>>, <<2, 0, 1>>}

\* rows of a well-formed file
NamedRows ==
  {Row(d, m, c[1], c[2], c[3], 0, 0) : d \in Districts, m \in Mandals, c \in Counts}

\* a row with an empty district cell, one with an empty mandal cell
UnnamedRows == {Row(NaN, "X", 1, 1, 0, 0, 0), Row("B", NaN, 1, 1, 0, 0, 0)}

\* a row of a third district
OtherRows == {Row("C", "X", 1, 1, 0, 0, 0)}

AggRows == NamedRows \cup UnnamedRows \cup OtherRows

SeqsUpTo(S, n) == UNION {[1..k -> S] : k \in 0..n}

\* the orders a build's sort may leave equal values in: the order they had
\* (a stable sort), and the reverse
TieRanks ==
  { [i \in 1..Len(KeyOrder) |-> i], [i \in 1..Len(KeyOrder) |-> Len(KeyOrder) + 1 - i] }

\* no exception has left the try block
NotRaised == [step |-> "none", exception |-> "none"]

\* the script's names before they are assigned
NoLocals ==
  /\ totals = <<>>
  /\ district_apps = <<>>
  /\ mandal_apps = <<>>
  /\ mandal_sla = <<>>
  /\ corr_matrix = <<>>
  /\ selected_district = All
  /\ metric_choice = MetricChoices[1]
  /\ filtered_data = <<>>
  /\ mandal_metric = <<>>

-----------------------------------------------------------------------------
(* The aggregations applied to a loaded dataset, one call each *)

InitAgg ==
  /\ \E rows \in SeqsUpTo(AggRows, MaxRows) :
       /\ file = [exists |-> TRUE, columns |-> Columns, rows |-> rows]
       /\ data = rows
       /\ cache = [hit |-> TRUE, value |-> rows]
  /\ tieRank \in TieRanks
  /\ pandas2 = TRUE
  /\ session = [district |-> 1, metric |-> 1]
  /\ pc = "summarize"
  /\ raised = NotRaised
  /\ screen = <<>>
  /\ NoLocals

Summarize ==
  /\ pc = "summarize"
  /\ totals' = Totals(data, Len(TotalsPlan))
  /\ pc' = "byDistrict"
  /\ UNCHANGED <<file, tieRank, pandas2, cache, session, raised, screen, data,
                 district_apps, mandal_apps, mandal_sla, corr_matrix,
                 selected_district, metric_choice, filtered_data, mandal_metric>>

ByDistrict ==
  /\ pc = "byDistrict"
  /\ district_apps' = DistrictApps(data)
  /\ pc' = "byMandal"
  /\ UNCHANGED <<file, tieRank, pandas2, cache, session, raised, screen, data,
                 totals, mandal_apps, mandal_sla, corr_matrix,
                 selected_district, metric_choice, filtered_data, mandal_metric>>

ByMandal ==
  /\ pc = "byMandal"
  /\ mandal_apps' = MandalApps(data)
  /\ pc' = "slaByMandal"
  /\ UNCHANGED <<file, tieRank, pandas2, cache, session, raised, screen, data,
                 totals, district_apps, mandal_sla, corr_matrix,
                 selected_district, metric_choice, filtered_data, mandal_metric>>

SlaByMandal ==
  /\ pc = "slaByMandal"
  /\ mandal_sla' = MandalSla(data)
  /\ pc' = "metricByMandal"
  /\ UNCHANGED <<file, tieRank, pandas2, cache, session, raised, screen, data,
                 totals, district_apps, mandal_apps, corr_matrix,
                 selected_district, metric_choice, filtered_data, mandal_metric>>

\* metricByMandal(filterByDistrict(dataset, district), metric) for an entry of
\* the district selector and a metric
MetricByMandal(i, m) ==
  /\ pc = "metricByMandal"
  /\ session' = [district |-> i, metric |-> m]
  /\ selected_district' = DistrictOptions(data)[i]
  /\ filtered_data' = FilteredData(data, DistrictOptions(data)[i])
  /\ metric_choice' = MetricChoices[m]
  /\ mandal_metric' = MandalMetric(FilteredData(data, DistrictOptions(data)[i]),
                                   MetricChoices[m])
  /\ pc' = "returned"
  /\ UNCHANGED <<file, tieRank, pandas2, cache, raised, screen, data,
                 totals, district_apps, mandal_apps, mandal_sla, corr_matrix>>

NextAgg ==
  \/ Summarize
  \/ ByDistrict
  \/ ByMandal
  \/ SlaByMandal
  \/ \E i \in 1..Len(DistrictOptions(data)), m \in 1..Len(MetricChoices) :
       MetricByMandal(i, m)

SpecAgg == InitAgg /\ [][NextAgg]_vars

-----------------------------------------------------------------------------
(* One run of the script, step by step, and the reruns the widgets trigger *)

MaxRunRows == 2

\* a row with text in one numeric column
TextRows ==
  { Row("B", "X", Str, 1, 0, 0, 0), Row("B", "X", 1, Str, 0, 0, 0),
    Row("B", "X", 1, 1, Str, 0, 0), Row("B", "X", 1, 1, 0, Str, 0),
    Row("B", "X", 1, 1, 0, 0, Str) }

Init ==
  /\ \/ file = [exists |-> FALSE, columns |-> {}, rows |-> <<>>]
     \/ \E rows \in SeqsUpTo(NamedRows \cup TextRows, MaxRunRows) :
          file = [exists |-> TRUE, columns |-> Columns, rows |-> rows]
     \/ \E rows \in SeqsUpTo(NamedRows, MaxRunRows), c \in Columns :
          file = [exists |-> TRUE, columns |-> Columns \ {c}, rows |-> rows]
  /\ tieRank \in TieRanks
  /\ pandas2 \in BOOLEAN
  /\ cache = [hit |-> FALSE, value |-> <<>>]
  /\ session = [district |-> 1, metric |-> 1]
  /\ pc = "load"
  /\ raised = NotRaised
  /\ screen = <<>>
  /\ data = <<>>
  /\ NoLocals

env == <<file, tieRank, pandas2>>

explorer_locals == <<selected_district, metric_choice, filtered_data, mandal_metric>>

\* (the overview reading the frame the explorer's district entry selects)
OverviewDataMutant == FilteredData(data, DistrictOptions(data)[session.district])

\* the frame the overview (lines 49-110) reads
OverviewData == data

\* an exception leaves the try block for the handler of line 146
Raise(step, exception) ==
  /\ pc' = "except"
  /\ raised' = [step |-> step, exception |-> exception]

\* lines 32-35, 42: load_data() behind st.cache_data
Load ==
  /\ pc = "load"
  /\ IF cache.hit
     THEN /\ data' = cache.value
          /\ pc' = "metrics"
          /\ UNCHANGED <<cache, raised>>
     ELSE IF ~file.exists
     THEN /\ Raise("load", "FileNotFoundError")
          /\ UNCHANGED <<cache, data>>
     ELSE /\ data' = file.rows
          /\ cache' = [hit |-> TRUE, value |-> file.rows]
          /\ pc' = "metrics"
          /\ UNCHANGED raised
  /\ UNCHANGED <<env, session, screen, totals, district_apps, mandal_apps,
                 mandal_sla, corr_matrix, explorer_locals>>

\* lines 47-65: the scalars are all computed, then shown one by one
Metrics ==
  /\ pc = "metrics"
  /\ LET k == KeyErrorAt(file.columns)
         ts == Totals(OverviewData, IF k = 0 THEN Len(TotalsPlan) ELSE k - 1)
         v == IF k = 0 THEN ValueErrorAt(ts) ELSE 0
         head == <<Element("metrics", "subheader", "Key Metrics Overview", 0)>>
     IN /\ totals' = ts
        /\ IF k # 0
           THEN /\ screen' = screen \o head
                /\ Raise("metrics", "KeyError")
           ELSE IF v # 0
           THEN /\ screen' = screen \o head \o MetricElements(ts, v - 1)
                /\ Raise("metrics", "ValueError")
           ELSE /\ screen' = screen \o head \o MetricElements(ts, Len(MetricCalls))
                /\ pc' = "district_chart"
                /\ UNCHANGED raised
  /\ UNCHANGED <<env, cache, session, data, district_apps, mandal_apps,
                 mandal_sla, corr_matrix, explorer_locals>>

\* lines 67-74
DistrictChart ==
  /\ pc = "district_chart"
  /\ district_apps' = DistrictApps(OverviewData)
  /\ screen' = screen \o
       << Element("district_chart", "subheader", "Application Trends by District", 0),
          Element("district_chart", "chart", "district_apps", DistrictApps(OverviewData)) >>
  /\ pc' = "sla_pie"
  /\ UNCHANGED <<env, cache, session, raised, data, totals, mandal_apps,
                 mandal_sla, corr_matrix, explorer_locals>>

\* lines 77-85
SlaPie ==
  /\ pc = "sla_pie"
  /\ screen' = screen \o
       << Element("sla_pie", "header", "SLA Compliance Analysis", 0),
          Element("sla_pie", "chart", "compliance_data",
                  <<Total(totals, "within_sla"), Total(totals, "beyond_sla")>>) >>
  /\ pc' = "mandal_chart"
  /\ UNCHANGED <<env, cache, session, raised, data, totals, district_apps,
                 mandal_apps, mandal_sla, corr_matrix, explorer_locals>>

\* lines 90-96
MandalChart ==
  /\ pc = "mandal_chart"
  /\ mandal_apps' = MandalApps(OverviewData)
  /\ screen' = screen \o
       << Element("mandal_chart", "subheader", "Mandal-wise Applications", 0),
          Element("mandal_chart", "chart", "mandal_apps", MandalApps(OverviewData)) >>
  /\ pc' = "mandal_sla_chart"
  /\ UNCHANGED <<env, cache, session, raised, data, totals, district_apps,
                 mandal_sla, corr_matrix, explorer_locals>>

\* lines 98-104
MandalSlaChart ==
  /\ pc = "mandal_sla_chart"
  /\ mandal_sla' = MandalSla(OverviewData)
  /\ screen' = screen \o
       << Element("mandal_sla_chart", "subheader", "SLA Compliance by Mandal", 0),
          Element("mandal_sla_chart", "chart", "mandal_sla", MandalSla(OverviewData)) >>
  /\ pc' = "correlation"
  /\ UNCHANGED <<env, cache, session, raised, data, totals, district_apps,
                 mandal_apps, corr_matrix, explorer_locals>>

\* lines 107-117
Correlation ==
  /\ pc = "correlation"
  /\ LET head == <<Element("correlation", "subheader", "Statistical Correlations", 0)>>
     IN IF CorrRaises(OverviewData)
        THEN /\ screen' = screen \o head
             /\ Raise("correlation", "ValueError")
             /\ UNCHANGED corr_matrix
        ELSE /\ corr_matrix' = Corr(OverviewData)
             /\ screen' = screen \o head \o
                  <<Element("correlation", "chart", "corr_matrix", Corr(OverviewData))>>
             /\ pc' = "explorer"
             /\ UNCHANGED raised
  /\ UNCHANGED <<env, cache, session, data, totals, district_apps, mandal_apps,
                 mandal_sla, explorer_locals>>

\* lines 120-144: both selectboxes return the entry the session holds
Explorer ==
  /\ pc = "explorer"
  /\ LET selected == DistrictOptions(data)[session.district]
         choice == MetricChoices[session.metric]
         filtered == FilteredData(data, selected)
     IN /\ selected_district' = selected
        /\ filtered_data' = filtered
        /\ metric_choice' = choice
        /\ mandal_metric' = MandalMetric(filtered, choice)
        /\ screen' = screen \o
             << Element("explorer", "header", "Interactive Data Explorer", 0),
                Element("explorer", "selectbox", "Select District", session.district),
                Element("explorer", "selectbox", "Select Metric to Visualize", session.metric),
                Element("explorer", "chart", "mandal_metric", MandalMetric(filtered, choice)) >>
  /\ pc' = "done"
  /\ UNCHANGED <<env, cache, session, raised, data, totals, district_apps,
                 mandal_apps, mandal_sla, corr_matrix>>

\* lines 146-148
Except ==
  /\ pc = "except"
  /\ screen' = screen \o ExceptElements(raised.exception)
  /\ pc' = "failed"
  /\ UNCHANGED <<env, cache, session, raised, data, totals, district_apps,
                 mandal_apps, mandal_sla, corr_matrix, explorer_locals>>

\* a change of a widget reruns the script from the top with a fresh namespace
\* and a fresh page; the session keeps the widgets' entries
Rerun ==
  /\ pc' = "load"
  /\ raised' = NotRaised
  /\ screen' = <<>>
  /\ data' = <<>>
  /\ totals' = <<>>
  /\ district_apps' = <<>>
  /\ mandal_apps' = <<>>
  /\ mandal_sla' = <<>>
  /\ corr_matrix' = <<>>
  /\ selected_district' = All
  /\ metric_choice' = MetricChoices[1]
  /\ filtered_data' = <<>>
  /\ mandal_metric' = <<>>
  /\ UNCHANGED <<env, cache>>

SelectDistrict(i) ==
  /\ pc = "done"
  /\ i # session.district
  /\ session' = [session EXCEPT !.district = i]
  /\ Rerun

SelectMetric(m) ==
  /\ pc = "done"
  /\ m # session.metric
  /\ session' = [session EXCEPT !.metric = m]
  /\ Rerun

Next ==
  \/ Load
  \/ Metrics
  \/ DistrictChart
  \/ SlaPie
  \/ MandalChart
  \/ MandalSlaChart
  \/ Correlation
  \/ Explorer
  \/ Except
  \/ \E i \in 1..Len(DistrictOptions(data)) : SelectDistrict(i)
  \/ \E m \in 1..Len(MetricChoices) : SelectMetric(m)

Spec == Init /\ [][Next]_vars

-----------------------------------------------------------------------------
(* Vocabulary of the properties *)

Names(df, col) == {df[i][col] : i \in 1..Len(df)} \ {NaN}

RowsOf(df, col, k) == {i \in 1..Len(df) : df[i][col] = k}

RECURSIVE SumOver(_, _, _)
SumOver(df, col, S) ==
  IF S = {} THEN 0
  ELSE LET i == CHOOSE j \in S : TRUE
       IN df[i][col] + SumOver(df, col, S \ {i})

SeriesTotal(s) == SumOver(s, "value", 1..Len(s))

FirstOccurrence(df, col, k) ==
  CHOOSE i \in RowsOf(df, col, k) : \A j \in RowsOf(df, col, k) : i <= j

Permute(df, p) == [i \in 1..Len(df) |-> df[p[i]]]

\* one pair per name of column by, holding the sum of col over the name's rows
GroupedOnce(s, df, by, col) ==
  /\ Len(s) = Cardinality(Names(df, by))
  /\ {s[i].key : i \in 1..Len(s)} = Names(df, by)
  /\ \A i \in 1..Len(s) : s[i].value = SumOver(df, col, RowsOf(df, by, s[i].key))

KeysAscending(s) ==
  \A i \in 1..(Len(s) - 1) : KeyIndex(s[i].key) < KeyIndex(s[i + 1].key)

\* tied keys in order of first occurrence in df
TiesByFirstOccurrence(s, df, by) ==
  \A i, j \in 1..Len(s) :
    i < j /\ s[i].value = s[j].value
      => FirstOccurrence(df, by, s[i].key) < FirstOccurrence(df, by, s[j].key)

\* tied keys in ascending order of the key
TiesByKey(s) ==
  \A i, j \in 1..Len(s) :
    i < j /\ s[i].value = s[j].value => KeyIndex(s[i].key) < KeyIndex(s[j].key)

StableSort == \A i \in DOMAIN tieRank : tieRank[i] = i

Aggregated == pc \in {"slaByMandal", "metricByMandal", "returned"}

-----------------------------------------------------------------------------
(* Properties of the aggregations (checked under SpecAgg) *)

\* C1: the per-district totals, total_applications and the per-mandal totals
\* add up to the same number, rows with an empty district or mandal included.
C1_SumInvariant ==
  Aggregated =>
    /\ SeriesTotal(district_apps) = Total(totals, "total_applications")
    /\ SeriesTotal(mandal_apps) = Total(totals, "total_applications")

\* C2: byDistrict holds one (district, sum) pair per district name, sums
\* non-decreasing; byMandal one pair per mandal name, sums non-increasing;
\* neither changes when the rows of the dataset are reordered.  (Stated of
\* the state in which both have returned.)
C2_GroupedAndSorted ==
  pc = "slaByMandal" =>
    /\ GroupedOnce(district_apps, data, district_Name, total_No_of_Application_Received)
    /\ \A i \in 1..(Len(district_apps) - 1) :
         district_apps[i].value <= district_apps[i + 1].value
    /\ GroupedOnce(mandal_apps, data, mandal_Name, total_No_of_Application_Received)
    /\ \A i \in 1..(Len(mandal_apps) - 1) :
         mandal_apps[i].value >= mandal_apps[i + 1].value
    /\ \A p \in Permutations(1..Len(data)) :
         /\ DistrictApps(Permute(data, p)) = district_apps
         /\ MandalApps(Permute(data, p)) = mandal_apps

\* C2 witness: three rows of three districts, the district listed first by
\* groupby has the largest sum and so comes last, and the mandal listed last
\* by groupby has the larger sum and so comes first.
C2_Witness ==
  /\ pc = "slaByMandal"
  /\ Len(data) = 3
  /\ Len(district_apps) = 3
  /\ district_apps[3].key = "All"
  /\ district_apps[1].value < district_apps[3].value
  /\ Len(mandal_apps) = 2
  /\ mandal_apps[1].key = "Y"
  /\ mandal_apps[1].value > mandal_apps[2].value

\* C3 as claimed: keys with equal sums appear in byDistrict and byMandal in
\* the order of their first occurrence in the dataset.
C3_TiesFirstOccurrence ==
  Aggregated =>
    /\ TiesByFirstOccurrence(district_apps, data, district_Name)
    /\ TiesByFirstOccurrence(mandal_apps, data, mandal_Name)

\* C3 amended: when the build's sort is stable, keys with equal sums appear
\* in byDistrict and byMandal in ascending order of the key (the order
\* groupby lists the groups in), whatever their order of first occurrence.
C3_TiesKeyOrderWhenStable ==
  Aggregated /\ StableSort => TiesByKey(district_apps) /\ TiesByKey(mandal_apps)

\* C3 witness: a stable build, two districts and two mandals with equal sums,
\* the later key of each pair occurring first in the dataset.
C3_Witness ==
  /\ Aggregated
  /\ StableSort
  /\ Names(data, district_Name) = {"All", "B"}
  /\ district_apps[1].value = district_apps[2].value
  /\ FirstOccurrence(data, district_Name, "B") < FirstOccurrence(data, district_Name, "All")
  /\ Names(data, mandal_Name) = {"X", "Y"}
  /\ mandal_apps[1].value = mandal_apps[2].value
  /\ FirstOccurrence(data, mandal_Name, "Y") < FirstOccurrence(data, mandal_Name, "X")

\* C4: the "All" entry returns the dataset as it is; an entry X taken from the
\* district column returns exactly the rows whose district_Name is X, in
\* their order, also when X is the text "All"; filtering the result again by
\* X returns it unchanged.  (Stated for the entries that are names.)
C4_FilterExact ==
  pc = "returned" =>
    LET X == DistrictOptions(data)[session.district]
    IN IF session.district = 1 THEN filtered_data = data
       ELSE X # NaN =>
              /\ filtered_data = SelectSeq(data, LAMBDA r : r[district_Name] = X)
              /\ FilteredData(filtered_data, X) = filtered_data

\* the column a metric kind stands for
ColumnOfKind(m) ==
  CASE m = 1 -> total_No_of_Application_Received
    [] m = 2 -> no_of_Application_Approve_with_in_BSLA
    [] m = 3 -> no_of_Application_Approve_Beyond_BSLA

Keys(s) == [i \in 1..Len(s) |-> s[i].key]

NamesInOrder(df, col) == SelectSeq(Unique(Column(df, col)), LAMBDA k : k # NaN)

\* C5 as claimed: metricByMandal lists the mandals of the filtered rows, and
\* slaByMandal the mandals of the dataset, in order of first occurrence.
C5_FirstOccurrenceOrder ==
  pc = "returned" =>
    /\ Keys(mandal_metric) = NamesInOrder(filtered_data, mandal_Name)
    /\ Keys(mandal_sla) = NamesInOrder(data, mandal_Name)

\* C5 amended: metricByMandal holds one (mandal, sum) pair per mandal name
\* among the filtered rows (a row with an empty mandal belongs to no pair),
\* the sum being that of the metric kind's column over the filtered rows of
\* the mandal, in ascending order of the mandal name; slaByMandal likewise
\* lists the mandal names of the dataset in ascending order with both sums.
C5_GroupedInKeyOrder ==
  pc = "returned" =>
    /\ GroupedOnce(mandal_metric, filtered_data, mandal_Name, ColumnOfKind(session.metric))
    /\ KeysAscending(mandal_metric)
    /\ Len(mandal_sla) = Cardinality(Names(data, mandal_Name))
    /\ {mandal_sla[i].key : i \in 1..Len(mandal_sla)} = Names(data, mandal_Name)
    /\ \A i \in 1..Len(mandal_sla) :
         LET rows == RowsOf(data, mandal_Name, mandal_sla[i].key)
         IN mandal_sla[i].value =
              << SumOver(data, no_of_Application_Approve_with_in_BSLA, rows),
                 SumOver(data, no_of_Application_Approve_Beyond_BSLA, rows) >>
    /\ KeysAscending(mandal_sla)

\* C5 witness: a district is selected that leaves out a row, a metric other
\* than the total is shown, and the two mandals of the filtered rows occur
\* in the dataset in descending order of their names.
C5_Witness ==
  /\ pc = "returned"
  /\ session.district > 1
  /\ session.metric = 2
  /\ Len(filtered_data) = 2
  /\ Len(data) = 3
  /\ Len(mandal_metric) = 2
  /\ filtered_data[1][mandal_Name] = "Y"
  /\ mandal_metric[1].value # mandal_metric[2].value

-----------------------------------------------------------------------------
(* Properties of a run of the script (checked under Spec) *)

NumericColumns == Columns \ {district_Name, mandal_Name}

MissingColumn == file.exists /\ file.columns # Columns

HasText ==
  /\ file.exists
  /\ file.columns = Columns
  /\ \E i \in 1..Len(file.rows), c \in NumericColumns : file.rows[i][c] = Str

\* a total, count or grouped aggregate is on the page
Presented == \E i \in 1..Len(screen) : screen[i].kind \in {"metric", "chart"}

Ended == pc \in {"done", "failed"}

C7_TextFailsLoad ==
  HasText /\ Ended => raised.step = "load" /\ ~Presented

ZeroVariance(df, col) == \A i, j \in 1..Len(df) : df[i][col] = df[j][col]

\* fewer than two rows, or a column of the matrix with zero variance
Degenerate(df) ==
  Len(df) < 2 \/ \E i \in 1..Len(numeric_cols) : ZeroVariance(df, numeric_cols[i])

\* C8: on a dataset with fewer than two rows, or with a zero-variance column,
\* the correlation fails and no matrix is handed to the page.
C8_CorrelationFailsExplicitly ==
  file.exists /\ file.columns = Columns /\ ~HasText /\ Degenerate(file.rows) =>
    /\ pc \notin {"explorer", "done"}
    /\ \A i \in 1..Len(screen) : screen[i].name # "corr_matrix"

\* what grouping the dataset of the file afresh gives for an element of the page
Afresh(e) ==
  CASE e.kind = "metric" ->
         \E i \in 1..Len(MetricCalls), j \in 1..Len(TotalsPlan) :
           /\ MetricCalls[i].label = e.name
           /\ TotalsPlan[j].name = MetricCalls[i].of
           /\ e.value = Aggregate(file.rows, TotalsPlan[j].col, TotalsPlan[j].agg)
    [] e.kind = "chart" /\ e.name = "district_apps" -> e.value = DistrictApps(file.rows)
    [] e.kind = "chart" /\ e.name = "compliance_data" ->
         e.value = << Sum(Column(file.rows, no_of_Application_Approve_with_in_BSLA)),
                      Sum(Column(file.rows, no_of_Application_Approve_Beyond_BSLA)) >>
    [] e.kind = "chart" /\ e.name = "mandal_apps" -> e.value = MandalApps(file.rows)
    [] e.kind = "chart" /\ e.name = "mandal_sla" -> e.value = MandalSla(file.rows)
    [] e.kind = "chart" /\ e.name = "corr_matrix" -> e.value = Corr(file.rows)
    [] e.kind = "chart" /\ e.name = "mandal_metric" ->
         e.value = MandalMetric(
                     FilteredData(file.rows, DistrictOptions(file.rows)[session.district]),
                     MetricChoices[session.metric])
    [] OTHER -> TRUE

\* C9: across the reruns the widgets trigger, the dataset is the file's rows,
\* unchanged, every overview element on the page is what grouping that
\* dataset afresh gives, and only the explorer's chart follows the widgets.
C9_OverviewOfDataset ==
  /\ pc # "load" /\ raised.step # "load" => data = file.rows
  /\ cache.hit => cache.value = file.rows
  /\ \A i \in 1..Len(screen) : Afresh(screen[i])

\* C9 witness: after changes of both widgets the run is complete, and the
\* selected district leaves rows of the dataset out.
C9_Witness ==
  /\ pc = "done"
  /\ session.district > 1
  /\ session.metric > 1
  /\ Len(filtered_data) > 0
  /\ Len(filtered_data) < Len(data)

PageIndex(step) == IF step = "except" THEN Len(StepOrder) + 1 ELSE StepIndex(step)

Count(kind) == Cardinality({i \in 1..Len(screen) : screen[i].kind = kind})

IsPrefix(s, t) == Len(s) <= Len(t) /\ SubSeq(t, 1, Len(s)) = s

\* the page is in step order; after a failure it holds nothing of a later
\* step; the error and the hint are shown once each, last, after a failure
\* and never otherwise
PageAfterFailure ==
  /\ \A i, j \in 1..Len(screen) :
       i < j => PageIndex(screen[i].step) <= PageIndex(screen[j].step)
  /\ pc \in {"except", "failed"} =>
       \A i \in 1..Len(screen) :
         screen[i].step # "except" => StepIndex(screen[i].step) <= StepIndex(raised.step)
  /\ IF pc = "failed"
     THEN /\ Count("error") = 1
          /\ Count("info") = 1
          /\ screen[Len(screen) - 1].kind = "error"
          /\ screen[Len(screen)].kind = "info"
          /\ screen[Len(screen) - 1].name = "An error occurred while loading or processing the data: "
     ELSE Count("error") = 0 /\ Count("info") = 0

\* a step of a run goes to the next step of the fixed order or to the
\* handler, the handler to the end, nothing runs after the handler, and what
\* is on the page stays there until a rerun
StepInOrder ==
  /\ pc # "failed"
  /\ pc = "except" => pc' = "failed"
  /\ pc = "done" => pc' = "load"
  /\ pc \notin {"except", "done"} =>
       \/ pc' = "except"
       \/ pc' = (IF StepIndex(pc) = Len(StepOrder) THEN "done"
                 ELSE StepOrder[StepIndex(pc) + 1])
  /\ pc' # "load" => IsPrefix(screen, screen')

\* C10: the steps run in the fixed order inside one boundary; when a step
\* fails, what the steps before it rendered stays on the page, no later step
\* runs, and one generic error and one hint are shown, whatever failed.
C10_OneBoundary == []PageAfterFailure /\ [][StepInOrder]_vars

\* C10 witness: the correlation failed; the metrics and the four charts
\* before it are on the page together with the error.
C10_Witness ==
  /\ pc = "failed"
  /\ raised.step = "correlation"
  /\ Count("metric") = 6
  /\ Count("chart") = 4
  /\ Count("error") = 1

====
